---- MODULE Spec2Model ----
(***************************************************************************)
(* Model of the AGNOS Flutter bridge: selfdrive/ui/device.{h,cc},          *)
(* selfdrive/ui/flutter_bridge.cc and selfdrive/ui/agnos_flutter/main.cc.  *)
(*                                                                         *)
(* Two threads exist.  The main thread runs flutter_bridge_init and then   *)
(* the application's main loop, from which the registered method-call      *)
(* handler is invoked.  The detached thread runs send_data.                *)
(* flutter_bridge_send_camera_frame is an exported function with no caller *)
(* in these files; it may be called at any time.                           *)
(*                                                                         *)
(* Calls that leave the program (Hardware::set_display_power, std::cout,   *)
(* fl_method_channel_invoke_method) are recorded in two logs, each keeping *)
(* the most recent MaxTrace / MaxPush entries.                             *)
(***************************************************************************)
EXTENDS Naturals, Sequences, FiniteSets

\* Number of entries kept in the log of main-thread events.
MaxTrace == 4

\* Number of entries kept in the log of outbound channel invocations.
MaxPush == 3

VARIABLES
    constructed,  \* the function-local static _device of device() exists
    awake,        \* Device::awake
    display,      \* <<>> before any Hardware::set_display_power, then <<last argument>>
    channel,      \* the file-static FlMethodChannel* channel
    handler,      \* the callback registered on the channel
    initPc,       \* position of the main thread in main / flutter_bridge_init
    sendPc,       \* position of the detached thread in send_data
    trace,        \* recent main-thread events, oldest first
    pushes        \* recent fl_method_channel_invoke_method calls, oldest first

vars == <<constructed, awake, display, channel, handler, initPc, sendPc, trace, pushes>>

\* Method names delivered to the handler: the two the code compares against
\* and one it does not know (strcmp is exact: a longer name does not match).
Methods == {"setMetric", "setAwake", "setAwakeNow"}

Known == {"setMetric", "setAwake"}

Unknown == Methods \ Known

NullChannel == "nullptr"

AgnosChannel == "agnos_flutter"

\* log with entry e added, keeping the cap most recent entries.
Log(log, e, cap) == IF Len(log) < cap THEN Append(log, e) ELSE Append(Tail(log), e)

CtorEvent == <<"ctor", "Device", TRUE>>

CallEvent(method, arg) == <<"call", method, arg>>

HwEvent(on) == <<"hw", "set_display_power", on>>

CoutEvent(is_metric) == <<"cout", "is_metric", is_metric>>

\* The main-thread side of the state as one value, so that the functions of
\* device.cc and the handler compose as they do in the code.
Dev == [constructed |-> constructed, awake |-> awake, display |-> display, trace |-> trace]

----
\* device.cc

\* Device::setAwake without the comparison: every call writes the flag and
\* calls the hardware.
Device_setAwake_NoChangeCheck(d, on) ==
    [d EXCEPT !.awake = on,
              !.display = <<on>>,
              !.trace = Log(@, HwEvent(on), MaxTrace)]

\* Device::setAwake calling the hardware before the assignment, so that the
\* call is passed the old flag.
Device_setAwake_StaleArg(d, on) ==
    IF on # d.awake
        THEN [d EXCEPT !.awake = on,
                       !.display = <<d.awake>>,
                       !.trace = Log(@, HwEvent(d.awake), MaxTrace)]
        ELSE d

\* void Device::setAwake(bool on)
Device_setAwake(d, on) ==
    IF on # d.awake
        THEN LET a == on      \* awake = on; the hardware call is passed awake
             IN  [d EXCEPT !.awake = a,
                           !.display = <<a>>,
                           !.trace = Log(@, HwEvent(a), MaxTrace)]
        ELSE d

\* Device::Device without the call of setAwake(true).
Device_Device_NoWake(d) ==
    [d EXCEPT !.constructed = TRUE,
              !.awake = FALSE,
              !.trace = Log(@, CtorEvent, MaxTrace)]

\* Device::Device with the member initialiser awake = true.
Device_Device_DefaultTrue(d) ==
    Device_setAwake([d EXCEPT !.constructed = TRUE,
                              !.awake = TRUE,
                              !.trace = Log(@, CtorEvent, MaxTrace)], TRUE)

\* Device::Device(QObject*): the member initialiser awake = false, then setAwake(true)
Device_Device(d) ==
    Device_setAwake([d EXCEPT !.constructed = TRUE,
                              !.awake = FALSE,
                              !.trace = Log(@, CtorEvent, MaxTrace)], TRUE)

\* Device *device(): the static is constructed on the first call only
device(d) == IF d.constructed THEN d ELSE Device_Device(d)

----
\* flutter_bridge.cc

\* method_call_handler comparing only the first 8 characters of the name
\* (strncmp), so that "setAwakeNow" is taken for "setAwake".
method_call_handler_PrefixMatch(d, method, arg) ==
    IF method = "setMetric"
        THEN [d EXCEPT !.trace = Log(@, CoutEvent(arg), MaxTrace)]
        ELSE IF method \in {"setAwake", "setAwakeNow"}
            THEN Device_setAwake(device(d), arg)
            ELSE d

\* method_call_handler with "if" in place of "else if" and the argument read
\* once: "setMetric" prints and then also reaches the setter.
method_call_handler_MetricFallsThrough(d, method, arg) ==
    IF method \in {"setMetric", "setAwake"}
        THEN Device_setAwake(
                 device(IF method = "setMetric"
                            THEN [d EXCEPT !.trace = Log(@, CoutEvent(arg), MaxTrace)]
                            ELSE d),
                 arg)
        ELSE d

\* static void method_call_handler(channel, method_call, user_data)
method_call_handler(d, method, arg) ==
    IF method = "setMetric"
        THEN [d EXCEPT !.trace = Log(@, CoutEvent(arg), MaxTrace)]
        ELSE IF method = "setAwake"
            THEN Device_setAwake(device(d), arg)
            ELSE d

SetDev(d) ==
    /\ constructed' = d.constructed
    /\ awake' = d.awake
    /\ display' = d.display
    /\ trace' = d.trace

Init ==
    /\ constructed = FALSE
    /\ awake = FALSE
    /\ display = <<>>
    /\ channel = NullChannel
    /\ handler = "none"
    /\ initPc = "device"
    /\ sendPc = "none"
    /\ trace = <<>>
    /\ pushes = <<>>

\* flutter_bridge_init, line 48: device();
InitDevice ==
    /\ initPc = "device"
    /\ SetDev(device(Dev))
    /\ initPc' = "channel"
    /\ UNCHANGED <<channel, handler, sendPc, pushes>>

\* flutter_bridge_init assigning the new channel to a local that shadows the
\* file-static channel.
InitChannel_Shadowed ==
    /\ initPc = "channel"
    /\ initPc' = "handler"
    /\ UNCHANGED <<constructed, awake, display, channel, handler, sendPc, trace, pushes>>

\* flutter_bridge_init, lines 49-55: channel = fl_method_channel_new(...)
InitChannel ==
    /\ initPc = "channel"
    /\ channel' = AgnosChannel
    /\ initPc' = "handler"
    /\ UNCHANGED <<constructed, awake, display, handler, sendPc, trace, pushes>>

\* flutter_bridge_init, line 56: fl_method_channel_set_method_call_handler
InitHandler ==
    /\ initPc = "handler"
    /\ handler' = "method_call_handler"
    /\ initPc' = "thread"
    /\ UNCHANGED <<constructed, awake, display, channel, sendPc, trace, pushes>>

\* flutter_bridge_init, line 58: std::thread(send_data).detach(); then main
\* goes on to g_application_run.
InitThread ==
    /\ initPc = "thread"
    /\ sendPc' = "sleep"
    /\ initPc' = "done"
    /\ UNCHANGED <<constructed, awake, display, channel, handler, trace, pushes>>

\* The main loop delivers a method call to the registered handler.
Dispatch(method, arg) ==
    /\ initPc = "done"
    /\ handler = "method_call_handler"
    /\ SetDev(method_call_handler(
                  [Dev EXCEPT !.trace = Log(@, CallEvent(method, arg), MaxTrace)],
                  method, arg))
    /\ UNCHANGED <<channel, handler, initPc, sendPc, pushes>>

\* flutter_bridge_send_camera_frame without the test of channel.
flutter_bridge_send_camera_frame_NoCheck ==
    /\ pushes' = Log(pushes, <<"updateCameraFrame", channel>>, MaxPush)
    /\ UNCHANGED <<constructed, awake, display, channel, handler, initPc, sendPc, trace>>

\* void flutter_bridge_send_camera_frame(data, width, height)
flutter_bridge_send_camera_frame ==
    /\ IF channel # NullChannel
           THEN pushes' = Log(pushes, <<"updateCameraFrame", channel>>, MaxPush)
           ELSE UNCHANGED pushes
    /\ UNCHANGED <<constructed, awake, display, channel, handler, initPc, sendPc, trace>>

\* send_data, line 36: std::this_thread::sleep_for(1 s) returns
SendSleep ==
    /\ sendPc = "sleep"
    /\ sendPc' = "device"
    /\ UNCHANGED <<constructed, awake, display, channel, handler, initPc, trace, pushes>>

\* send_data with the two method names exchanged.
SendDeviceInfo_CarFirst ==
    /\ sendPc = "device"
    /\ pushes' = Log(pushes, <<"updateCarInfo", channel>>, MaxPush)
    /\ sendPc' = "car"
    /\ UNCHANGED <<constructed, awake, display, channel, handler, initPc, trace>>

\* send_data, lines 37-39: invoke "updateDeviceInfo" on channel
SendDeviceInfo ==
    /\ sendPc = "device"
    /\ pushes' = Log(pushes, <<"updateDeviceInfo", channel>>, MaxPush)
    /\ sendPc' = "car"
    /\ UNCHANGED <<constructed, awake, display, channel, handler, initPc, trace>>

\* send_data returning after the first iteration.
SendCarInfo_Returns ==
    /\ sendPc = "car"
    /\ pushes' = Log(pushes, <<"updateCarInfo", channel>>, MaxPush)
    /\ sendPc' = "none"
    /\ UNCHANGED <<constructed, awake, display, channel, handler, initPc, trace>>

\* send_data, lines 41-43: invoke "updateCarInfo" on channel, then loop
SendCarInfo ==
    /\ sendPc = "car"
    /\ pushes' = Log(pushes, <<"updateCarInfo", channel>>, MaxPush)
    /\ sendPc' = "sleep"
    /\ UNCHANGED <<constructed, awake, display, channel, handler, initPc, trace>>

send_data == SendSleep \/ SendDeviceInfo \/ SendCarInfo

Next ==
    \/ InitDevice
    \/ InitChannel
    \/ InitHandler
    \/ InitThread
    \/ \E method \in Methods, arg \in BOOLEAN : Dispatch(method, arg)
    \/ flutter_bridge_send_camera_frame
    \/ SendSleep
    \/ SendDeviceInfo
    \/ SendCarInfo

Spec == Init /\ [][Next]_vars

\* The detached thread is scheduled fairly; nothing is assumed of the main
\* thread or of the callers of flutter_bridge_send_camera_frame.
FairSpec == Spec /\ WF_vars(SendSleep) /\ WF_vars(SendDeviceInfo) /\ WF_vars(SendCarInfo)

----
\* Reading the logs

IsSetAwakeCall(e) == e[1] = "ctor" \/ (e[1] = "call" /\ e[2] = "setAwake")

IsHw(e) == e[1] = "hw"

SetAwakeCalls == {i \in 1..Len(trace) : IsSetAwakeCall(trace[i])}

\* The last position whose event belongs to the call logged at position j:
\* the events up to the next setAwake call, or to the end of the log.
CallEnd(j) ==
    LET later == {k \in SetAwakeCalls : k > j}
    IN  IF later = {} THEN Len(trace)
        ELSE (CHOOSE k \in later : \A l \in later : k <= l) - 1

HwCount(i, j) == Cardinality({k \in i..j : IsHw(trace[k])})

\* Positions i < j hold setAwake calls and every setAwake call from i to j
\* carries the same argument.
SameArgRun(i, j) ==
    /\ i < j
    /\ \A k \in SetAwakeCalls : (i <= k /\ k <= j) => trace[k][3] = trace[i][3]

\* C1: a run of consecutive setAwake calls with the same argument causes at
\* most one Hardware::set_display_power call, and none after the first call of
\* the run; the constructor's setAwake(true) followed by setAwake(true) causes
\* exactly one.
C1_SameArgAtMostOneHw ==
    \A i \in SetAwakeCalls : \A j \in SetAwakeCalls :
        SameArgRun(i, j) =>
            /\ HwCount(i, CallEnd(j)) <= 1
            /\ HwCount(i + 1, CallEnd(j)) = HwCount(i + 1, CallEnd(i))
            /\ (trace[i] = CtorEvent => HwCount(i, CallEnd(j)) = 1)

C1_Witness ==
    /\ Len(trace) >= 4
    /\ trace[1] = CtorEvent
    /\ trace[2] = HwEvent(TRUE)
    /\ trace[3] = CallEvent("setAwake", TRUE)
    /\ trace[4] = CallEvent("setAwake", TRUE)

\* C2: a method call whose name is neither "setMetric" nor "setAwake" changes
\* nothing but the record of the call itself: the awake flag, the Device and
\* the display power stay as they were, no hardware call, output or error is
\* logged and nothing is pushed.
C2_UnknownMethodNoEffect ==
    [][\A method \in Unknown : \A arg \in BOOLEAN :
          Dispatch(method, arg) =>
              /\ awake' = awake
              /\ constructed' = constructed
              /\ display' = display
              /\ pushes' = pushes
              /\ trace' = Log(trace, CallEvent(method, arg), MaxTrace)]_vars

C2_Witness ==
    /\ Len(trace) >= 3
    /\ trace[Len(trace)] = CallEvent("setAwakeNow", FALSE)
    /\ trace[Len(trace) - 1] = CallEvent("setAwakeNow", TRUE)
    /\ awake
    /\ display = <<TRUE>>

CtorLogged == \E i \in 1..Len(trace) : trace[i] = CtorEvent

SetAwakeDispatched == \E i \in 1..Len(trace) : trace[i][1] = "call" /\ trace[i][2] = "setAwake"

\* C3: before the Device is constructed the flag holds its declared default,
\* false; once it is constructed and until a "setAwake" command is dispatched
\* the flag is true.
C3_AwakeAfterConstruction ==
    /\ ~constructed => awake = FALSE
    /\ initPc \in {"channel", "handler", "thread"} => constructed /\ awake = TRUE
    /\ (constructed /\ CtorLogged /\ ~SetAwakeDispatched) => awake = TRUE

C3_Witness ==
    /\ initPc = "done"
    /\ trace = <<CtorEvent, HwEvent(TRUE), CallEvent("setMetric", FALSE), CoutEvent(FALSE)>>
    /\ awake

\* C4: a dispatched "setAwake" command with argument b leaves the flag equal
\* to b; when b differed from the flag it makes exactly one hardware call, with
\* argument b, and when b equalled the flag it makes none.  The constructor's
\* setAwake(true) on the default flag does the same.
C4_SetAwakeEffect ==
    [][/\ \A b \in BOOLEAN :
            Dispatch("setAwake", b) =>
                /\ awake' = b
                /\ b # awake =>
                      /\ display' = <<b>>
                      /\ trace' = Log(Log(trace, CallEvent("setAwake", b), MaxTrace),
                                      HwEvent(b), MaxTrace)
                /\ b = awake =>
                      /\ display' = display
                      /\ trace' = Log(trace, CallEvent("setAwake", b), MaxTrace)
       /\ InitDevice =>
            /\ awake' = TRUE
            /\ display' = <<TRUE>>
            /\ trace' = <<CtorEvent, HwEvent(TRUE)>>]_vars

C4_Witness ==
    /\ Len(trace) >= 4
    /\ trace[Len(trace) - 3] = CallEvent("setAwake", TRUE)
    /\ trace[Len(trace) - 2] = CallEvent("setAwake", FALSE)
    /\ trace[Len(trace) - 1] = HwEvent(FALSE)
    /\ trace[Len(trace)] = CallEvent("setAwake", FALSE)
    /\ awake = FALSE
    /\ display = <<FALSE>>

IsPeriodic(p) == p[1] \in {"updateDeviceInfo", "updateCarInfo"}

LastPushIs(name) == pushes # <<>> /\ pushes[Len(pushes)][1] = name

\* C5: once the detached thread has been started it never leaves send_data,
\* and with the thread scheduled fairly an "updateDeviceInfo" push and an
\* "updateCarInfo" push always lie ahead, whatever else happens meanwhile.
C5_PushLoopForever ==
    /\ [][sendPc # "none" => sendPc' \in {"sleep", "device", "car"}]_vars
    /\ (sendPc # "none") ~> (sendPc = "car" /\ LastPushIs("updateDeviceInfo"))
    /\ (sendPc # "none") ~> (sendPc = "sleep" /\ LastPushIs("updateCarInfo"))

C5_Witness ==
    /\ sendPc = "sleep"
    /\ pushes = << <<"updateCarInfo", AgnosChannel>>,
                   <<"updateDeviceInfo", AgnosChannel>>,
                   <<"updateCarInfo", AgnosChannel>> >>
    /\ \E i \in 1..Len(trace) : trace[i][1] = "call"

\* C6: flutter_bridge_send_camera_frame changes nothing while channel is
\* null and otherwise adds exactly one "updateCameraFrame" push and changes
\* nothing else, so no camera-frame push is ever made on a null channel; the
\* periodic pushes are made whenever the thread reaches them, on whatever
\* channel then holds.
C6_ChannelCheckedAtFrameSendOnly ==
    /\ [][/\ (flutter_bridge_send_camera_frame /\ channel = NullChannel)
                => UNCHANGED vars
          /\ (flutter_bridge_send_camera_frame /\ channel # NullChannel)
                => /\ pushes' = Log(pushes, <<"updateCameraFrame", channel>>, MaxPush)
                   /\ UNCHANGED <<constructed, awake, display, channel, handler,
                                  initPc, sendPc, trace>>
          /\ SendDeviceInfo => pushes' = Log(pushes, <<"updateDeviceInfo", channel>>, MaxPush)
          /\ SendCarInfo => pushes' = Log(pushes, <<"updateCarInfo", channel>>, MaxPush)]_vars
    /\ [](\A i \in 1..Len(pushes) :
              pushes[i][1] = "updateCameraFrame" => pushes[i][2] # NullChannel)
    /\ [](sendPc = "device" => ENABLED SendDeviceInfo)
    /\ [](sendPc = "car" => ENABLED SendCarInfo)

C6_Witness ==
    /\ channel # NullChannel
    /\ sendPc = "none"
    /\ pushes = << <<"updateCameraFrame", AgnosChannel>>, <<"updateCameraFrame", AgnosChannel>> >>

\* C7: the "setMetric" command, the steps of send_data and
\* flutter_bridge_send_camera_frame leave the awake flag, the Device and the
\* display power unchanged and log no hardware call; the flag changes only in
\* the Device's construction or in a dispatched "setAwake" command.
C7_AwakeWrittenBySetterOnly ==
    [][/\ \A arg \in BOOLEAN :
            Dispatch("setMetric", arg) =>
                /\ UNCHANGED <<constructed, awake, display>>
                /\ trace' = Log(Log(trace, CallEvent("setMetric", arg), MaxTrace),
                                CoutEvent(arg), MaxTrace)
       /\ (send_data \/ flutter_bridge_send_camera_frame) =>
                UNCHANGED <<constructed, awake, display, trace>>
       /\ awake' # awake => (InitDevice \/ \E b \in BOOLEAN : Dispatch("setAwake", b))
       /\ display' # display => (InitDevice \/ \E b \in BOOLEAN : Dispatch("setAwake", b))]_vars

C7_Witness ==
    /\ awake = FALSE
    /\ Len(trace) >= 2
    /\ trace[Len(trace) - 1] = CallEvent("setMetric", TRUE)
    /\ trace[Len(trace)] = CoutEvent(TRUE)
    /\ \E i \in 1..Len(pushes) : pushes[i][1] = "updateCameraFrame"
    /\ \E i \in 1..Len(pushes) : pushes[i][1] = "updateCarInfo"

\* The positions of pushes that hold periodic pushes, and the periodic push
\* before position i, if any.
Periodic == {i \in 1..Len(pushes) : IsPeriodic(pushes[i])}

PrevPeriodic(i) == {k \in Periodic : k < i /\ \A l \in Periodic : l < i => l <= k}

\* C8: among the periodic pushes every "updateCarInfo" directly follows an
\* "updateDeviceInfo" and every later "updateDeviceInfo" directly follows an
\* "updateCarInfo"; the first periodic push is "updateDeviceInfo"; none is made
\* before the thread has come out of its first sleep, and each push is made
\* from the place in the loop that the sleep, or the other push, leads to.
C8_PeriodicPushesAlternate ==
    /\ [](\A i \in Periodic : \A k \in PrevPeriodic(i) : pushes[k][1] # pushes[i][1])
    /\ [](Len(pushes) < MaxPush =>
             \A i \in Periodic : PrevPeriodic(i) = {} => pushes[i][1] = "updateDeviceInfo")
    /\ []((sendPc = "none" /\ Len(pushes) < MaxPush) => Periodic = {})
    /\ []((sendPc = "car" /\ Periodic # {}) =>
             \A i \in Periodic : (\A l \in Periodic : l <= i) => pushes[i][1] = "updateDeviceInfo")
    /\ []((sendPc \in {"sleep", "device"} /\ Periodic # {}) =>
             \A i \in Periodic : (\A l \in Periodic : l <= i) => pushes[i][1] = "updateCarInfo")
    /\ [][/\ sendPc' = "device" => sendPc \in {"sleep", "device"}
          /\ sendPc' = "car" => sendPc \in {"device", "car"}
          /\ (sendPc = "none" /\ sendPc' # "none") => (sendPc' = "sleep" /\ pushes' = pushes)
          /\ (sendPc = "sleep" /\ sendPc' # "sleep") => (sendPc' = "device" /\ pushes' = pushes)]_vars

C8_Witness ==
    /\ sendPc = "car"
    /\ pushes = << <<"updateDeviceInfo", AgnosChannel>>,
                   <<"updateCarInfo", AgnosChannel>>,
                   <<"updateDeviceInfo", AgnosChannel>> >>

HwEvents == {i \in 1..Len(trace) : IsHw(trace[i])}

\* C9: from the Device's construction on, the argument of the most recent
\* hardware power call equals the awake flag (and before it no call has been
\* made); the constructor makes the first call, with argument true; two
\* consecutive hardware calls never carry the same argument.
C9_DisplayFollowsAwake ==
    /\ constructed => display = <<awake>>
    /\ ~constructed => (display = <<>> /\ trace = <<>>)
    /\ \A i \in 1..Len(trace) :
          trace[i] = CtorEvent =>
              /\ i < Len(trace)
              /\ trace[i + 1] = HwEvent(TRUE)
              /\ \A k \in HwEvents : k > i
    /\ \A i \in HwEvents : \A j \in HwEvents :
          (i < j /\ \A k \in HwEvents : ~(i < k /\ k < j)) => trace[i][3] # trace[j][3]
    /\ \A i \in HwEvents : (\A k \in HwEvents : k <= i) => trace[i][3] = awake

C9_Witness ==
    /\ trace = <<CtorEvent, HwEvent(TRUE), CallEvent("setAwake", FALSE), HwEvent(FALSE)>>
    /\ display = <<FALSE>>

\* C10: the handler is registered only after the Device is constructed and
\* its power-on call made; the thread runs only with channel assigned, and
\* channel, once assigned, is never null again; no method call is delivered
\* before the constructor's power-on call; no periodic push is made on a null
\* channel.
C10_InitOrder ==
    /\ [](handler # "none" => (constructed /\ display # <<>> /\ channel # NullChannel))
    /\ [](sendPc # "none" => (channel # NullChannel /\ handler # "none"))
    /\ [][channel # NullChannel => channel' = channel]_vars
    /\ [](\A i \in 1..Len(trace) :
              trace[i][1] = "call" =>
                  /\ constructed
                  /\ \A k \in 1..Len(trace) : trace[k] = CtorEvent => k < i)
    /\ [](\A i \in Periodic : pushes[i][2] # NullChannel)
    /\ [][initPc' # initPc =>
             \/ (initPc = "device" /\ initPc' = "channel" /\ constructed')
             \/ (initPc = "channel" /\ initPc' = "handler" /\ channel' # NullChannel)
             \/ (initPc = "handler" /\ initPc' = "thread" /\ handler' # "none")
             \/ (initPc = "thread" /\ initPc' = "done" /\ sendPc' # "none")]_vars

C10_Witness ==
    /\ initPc = "done"
    /\ Len(trace) = MaxTrace
    /\ trace[1] = CtorEvent
    /\ trace[3] = CallEvent("setAwake", FALSE)
    /\ \E i \in Periodic : pushes[i] = <<"updateDeviceInfo", AgnosChannel>>

====
